---- MODULE Spec2Model ----
(***************************************************************************)
(* A model of GoChatGo (src/go-chat.go): the chat turn of sendChat with    *)
(* its four completion calls, the per-day JSON conversation logs, the      *)
(* config, state and summary files, and the history trimming of            *)
(* truncateChatHistory.                                                    *)
(*                                                                         *)
(* Text is a sequence of characters.  A string literal of the source is a  *)
(* one-element sequence holding the literal, so that concatenation (+) is  *)
(* \o everywhere.  Times are whole hours since the first run.              *)
(***************************************************************************)
EXTENDS Integers, Sequences, FiniteSets, TLC

(***************************************************************************)
(* Bounds of the model.                                                    *)
(***************************************************************************)
\* Calendar days 0..MaxDay are modelled (SpecCLI: one day more).
MaxDay == 1
\* A turn starts only while fewer than MaxTurns entries are logged (SpecCLI:
\* while at most MaxTurns are).
MaxTurns == 2
\* Processes (invocations of the binary) that exist at the same time, each
\* running alone (SpecConcurrent has two that interleave).
NumProcs == 1
\* SpecTrim: longest history and largest limit handed to truncateChatHistory.
MaxHist == 3
MaxLimit == 4
\* SpecDaemon: the clock runs hour by hour from 0 to MaxHour.
MaxHour == 4

(***************************************************************************)
(* Program constants.                                                      *)
(***************************************************************************)
\* sendChat: truncateChatHistory(getChatHistory(), 1000)
HistoryBudget == 1000
\* getLastTwoDaysLogFiles: for i := 0; i < 2; i++
LogDays == 2
\* updateSummary: if len(logs) > 5
SummaryThreshold == 5
\* updateSummary: summarizeLogs(logs[:len(logs)-4])
SummaryKeep == 4
\* time.Now().Format("2006-01-02"): a calendar day has 24 hours
DayHours == 24
\* http.StatusOK
StatusOK == 200
\* Line 628: hours without an interaction before the daemon checks in.
CheckInHours == 2

Procs == 1..NumProcs
Days == 0..MaxDay

(***************************************************************************)
(* Text.                                                                   *)
(***************************************************************************)
\* A byte that is not valid UTF-8, and U+FFFD, which encoding/json writes
\* in its place.
InvalidByte == "xFF"
ReplacementChar == "uFFFD"
Space == " "

\* encoding/json, string values: "coerced to valid UTF-8, replacing invalid
\* bytes with the Unicode replacement rune".
ToValidUTF8(s) ==
    [i \in 1..Len(s) |-> IF s[i] = InvalidByte THEN ReplacementChar ELSE s[i]]

\* strings.Split(s, " "): the pieces of s between the separators; n
\* separators give n + 1 pieces, and the empty string gives one empty piece.
RECURSIVE Split(_, _)
Split(s, sep) ==
    IF \A i \in 1..Len(s) : s[i] # sep
    THEN <<s>>
    ELSE LET k == CHOOSE i \in 1..Len(s) :
                      s[i] = sep /\ \A j \in 1..(i - 1) : s[j] # sep
         IN <<SubSeq(s, 1, k - 1)>> \o Split(SubSeq(s, k + 1, Len(s)), sep)

(***************************************************************************)
(* truncateChatHistory (lines 511-525).                                    *)
(***************************************************************************)
\* messageTokens := len(strings.Split(chatHistory[i]["content"], " "))
messageTokens(message) == Len(Split(message.content, Space))

\* The loop from i down to 0, with the history kept so far and its tokens.
RECURSIVE truncateLoop(_, _, _, _, _)
truncateLoop(chatHistory, maxTokens, i, totalTokens, truncatedHistory) ==
    IF i < 1
    THEN truncatedHistory
    ELSE IF totalTokens + messageTokens(chatHistory[i]) > maxTokens
         THEN truncatedHistory
         ELSE truncateLoop(chatHistory, maxTokens, i - 1,
                           totalTokens + messageTokens(chatHistory[i]),
                           <<chatHistory[i]>> \o truncatedHistory)

\* Faults of the loop: the most recent message is kept whatever it costs;
\* a kept message is appended instead of prepended; a message over the limit
\* is skipped instead of ending the loop.
truncateChatHistory_KeepLast(chatHistory, maxTokens) ==
    IF chatHistory = <<>>
    THEN <<>>
    ELSE truncateLoop(chatHistory, maxTokens, Len(chatHistory) - 1,
                      messageTokens(chatHistory[Len(chatHistory)]),
                      <<chatHistory[Len(chatHistory)]>>)

RECURSIVE truncateLoop_Append(_, _, _, _, _)
truncateLoop_Append(chatHistory, maxTokens, i, totalTokens, truncatedHistory) ==
    IF i < 1
    THEN truncatedHistory
    ELSE IF totalTokens + messageTokens(chatHistory[i]) > maxTokens
         THEN truncatedHistory
         ELSE truncateLoop_Append(chatHistory, maxTokens, i - 1,
                                  totalTokens + messageTokens(chatHistory[i]),
                                  truncatedHistory \o <<chatHistory[i]>>)
truncateChatHistory_Append(chatHistory, maxTokens) ==
    truncateLoop_Append(chatHistory, maxTokens, Len(chatHistory), 0, <<>>)

RECURSIVE truncateLoop_Continue(_, _, _, _, _)
truncateLoop_Continue(chatHistory, maxTokens, i, totalTokens, truncatedHistory) ==
    IF i < 1
    THEN truncatedHistory
    ELSE IF totalTokens + messageTokens(chatHistory[i]) > maxTokens
         THEN truncateLoop_Continue(chatHistory, maxTokens, i - 1, totalTokens,
                                    truncatedHistory)
         ELSE truncateLoop_Continue(chatHistory, maxTokens, i - 1,
                                    totalTokens + messageTokens(chatHistory[i]),
                                    <<chatHistory[i]>> \o truncatedHistory)
truncateChatHistory_Continue(chatHistory, maxTokens) ==
    truncateLoop_Continue(chatHistory, maxTokens, Len(chatHistory), 0, <<>>)

\* Another fault: a message that would fill the limit exactly ends the loop.
RECURSIVE truncateLoop_Strict(_, _, _, _, _)
truncateLoop_Strict(chatHistory, maxTokens, i, totalTokens, truncatedHistory) ==
    IF i < 1
    THEN truncatedHistory
    ELSE IF totalTokens + messageTokens(chatHistory[i]) >= maxTokens
         THEN truncatedHistory
         ELSE truncateLoop_Strict(chatHistory, maxTokens, i - 1,
                                  totalTokens + messageTokens(chatHistory[i]),
                                  <<chatHistory[i]>> \o truncatedHistory)
truncateChatHistory_Strict(chatHistory, maxTokens) ==
    truncateLoop_Strict(chatHistory, maxTokens, Len(chatHistory), 0, <<>>)

truncateChatHistory(chatHistory, maxTokens) ==
    truncateLoop(chatHistory, maxTokens, Len(chatHistory), 0, <<>>)

(***************************************************************************)
(* The types of the program (lines 37-53) and their JSON documents.        *)
(***************************************************************************)
\* time.Time{}: the zero time, long before the first run.
ZeroTime == -17000000

\* Config{}
ZeroConfig == [UserName |-> <<>>, AIName |-> <<>>, Bio |-> <<>>, Personality |-> <<>>]
\* ChatLog{}
ZeroChatLog == [Timestamp |-> ZeroTime, Request |-> <<>>, Response |-> <<>>]
\* State{}
ZeroState == [LastInteraction |-> ZeroTime, CheckInEnabled |-> FALSE]

\* json.Marshal of a ChatLog: the keys of the struct tags, strings coerced to
\* valid UTF-8, the time as its RFC 3339 text (which names the same instant).
MarshalChatLog(l) ==
    [timestamp |-> l.Timestamp,
     request   |-> ToValidUTF8(l.Request),
     response  |-> ToValidUTF8(l.Response)]
UnmarshalChatLog(o) ==
    [Timestamp |-> o.timestamp, Request |-> o.request, Response |-> o.response]
\* json.Marshal(logs) and json.Unmarshal(data, &logs) of a []ChatLog.
MarshalLogs(logs) == [i \in 1..Len(logs) |-> MarshalChatLog(logs[i])]
UnmarshalLogs(data) == [i \in 1..Len(data) |-> UnmarshalChatLog(data[i])]

MarshalConfig(c) ==
    [user_name   |-> ToValidUTF8(c.UserName),
     ai_name     |-> ToValidUTF8(c.AIName),
     bio         |-> ToValidUTF8(c.Bio),
     personality |-> ToValidUTF8(c.Personality)]
UnmarshalConfig(o) ==
    [UserName |-> o.user_name, AIName |-> o.ai_name, Bio |-> o.bio,
     Personality |-> o.personality]

MarshalState(s) ==
    [last_interaction |-> s.LastInteraction, check_in_enabled |-> s.CheckInEnabled]
UnmarshalState(o) ==
    [LastInteraction |-> o.last_interaction, CheckInEnabled |-> o.check_in_enabled]

\* A path of the file system: whether a file is there, whether its bytes are
\* a JSON document json.Unmarshal accepts, and the document it holds.
AbsentLog == [exists |-> FALSE, parses |-> TRUE, data |-> <<>>]
AbsentConfig == [exists |-> FALSE, parses |-> TRUE, data |-> MarshalConfig(ZeroConfig)]
AbsentState == [exists |-> FALSE, parses |-> TRUE, data |-> MarshalState(ZeroState)]
AbsentSummary == [exists |-> FALSE, parses |-> TRUE, data |-> <<>>]

(***************************************************************************)
(* The state: the clock, the files under the home directory, and each      *)
(* process's position in sendChat with its local variables and the         *)
(* completion requests it has sent.                                        *)
(***************************************************************************)
VARIABLES
    now,          \* time.Now(), in hours
    logFiles,     \* logDirPath: day -> go-chat-log-<day>.json
    configFile,   \* configFilePath
    stateFile,    \* stateFilePath
    summaryFile,  \* summaryFilePath
    pc,           \* process -> where it is
    turn,         \* process -> the local variables of sendChat
    calls,        \* process -> the requests queryGPT sent, each with its response
    trimIn,       \* SpecTrim: the arguments of truncateChatHistory
    trimOut       \* SpecTrim: its result

vars == <<now, logFiles, configFile, stateFile, summaryFile, pc, turn, calls,
          trimIn, trimOut>>
files == <<logFiles, configFile, stateFile, summaryFile>>
trimVars == <<trimIn, trimOut>>

\* The calendar day of a time: what Format("2006-01-02") keeps of it.
Day(t) == t \div DayHours

\* getLogFilePath (lines 724-727): the path of today's log, named by its day.
getLogFilePath == Day(now)

\* getLastTwoDaysLogFiles (lines 729-736): today's path, then yesterday's.
getLastTwoDaysLogFiles_ThreeDays == [i \in 1..(LogDays + 1) |-> Day(now) - (i - 1)]
getLastTwoDaysLogFiles == [i \in 1..LogDays |-> Day(now) - (i - 1)]

\* ioutil.ReadFile of a log path in the log directory fs: a path of no
\* modelled day holds no file.
ReadLogFile(fs, path) == IF path \in DOMAIN fs THEN fs[path] ELSE AbsentLog

\* The loop of getChatHistory (lines 547-561) and of updateSummary (lines
\* 742-756): the entries of the files that hold any, in the order of the paths.
RECURSIVE readLogs(_, _)
readLogs(fs, paths) ==
    IF paths = <<>>
    THEN <<>>
    ELSE LET f == ReadLogFile(fs, Head(paths))
         IN (IF f.exists /\ f.parses /\ Len(f.data) > 0
             THEN UnmarshalLogs(f.data)
             ELSE <<>>)
            \o readLogs(fs, Tail(paths))

\* Lines 556-558, 751-753, 288-291 and 430-433: json.Unmarshal accepts what
\* each of the files at the paths holds.
logsParse(fs, paths) ==
    \A i \in 1..Len(paths) :
        LET f == ReadLogFile(fs, paths[i]) IN f.exists => f.parses

\* The second loop of getChatHistory (lines 563-575): a user and an assistant
\* message per entry.
RECURSIVE toMessages(_)
toMessages(logs) ==
    IF logs = <<>>
    THEN <<>>
    ELSE <<[role |-> "user", content |-> Head(logs).Request],
           [role |-> "assistant", content |-> Head(logs).Response]>>
         \o toMessages(Tail(logs))

\* getChatHistory (lines 543-576).
getChatHistory == toMessages(readLogs(logFiles, getLastTwoDaysLogFiles))

\* getConfig (lines 230-241): Config{} when the file cannot be read.
getConfig ==
    IF configFile.exists /\ configFile.parses
    THEN UnmarshalConfig(configFile.data)
    ELSE ZeroConfig
\* Lines 236-239: json.Unmarshal accepts the config file.
configParses == configFile.exists => configFile.parses

\* getState (lines 781-797): the state read, and the state file afterwards:
\* a missing file is created with the check-in enabled.
getState ==
    IF stateFile.exists /\ stateFile.parses
    THEN UnmarshalState(stateFile.data)
    ELSE [LastInteraction |-> ZeroTime, CheckInEnabled |-> TRUE]
\* saveState (lines 799-808).
saveState(state) == [exists |-> TRUE, parses |-> TRUE, data |-> MarshalState(state)]
\* Lines 792-795: json.Unmarshal accepts the state file.
stateParses == stateFile.exists => stateFile.parses

(***************************************************************************)
(* The inputs of the model: what the user types and what the completion    *)
(* endpoint answers.                                                       *)
(***************************************************************************)
\* Prompts of the command line: flag.Arg(0) is any byte string.
Prompts == {<<"q">>, <<"q", InvalidByte>>}
\* Texts the endpoint returns (decoded JSON strings: valid UTF-8).
Replies == {<<"a">>, <<"b">>}
\* Arguments of -p, and of -u, -ai and -b (an empty one leaves its field).
Personalities == {<<"p", InvalidByte>>}
ConfigArgs == {<<(<<"u">>), (<<>>), (<<"b">>)>>}

\* What client.Do and the decoding of the body can find (lines 476-508).
HTTPResponse(neterr, status, decodes, isArray, n, isObject, hasMessage, isString, text) ==
    [neterr |-> neterr, status |-> status, decodes |-> decodes,
     choicesIsArray |-> isArray, nChoices |-> n,
     choiceIsObject |-> isObject, messageIsObject |-> hasMessage,
     contentIsString |-> isString, content |-> text]
\* No response yet.
NoResponse == HTTPResponse(FALSE, 0, FALSE, FALSE, 0, FALSE, FALSE, FALSE, <<>>)
HTTPResponses ==
    {HTTPResponse(TRUE, 0, FALSE, FALSE, 0, FALSE, FALSE, FALSE, <<>>),
     HTTPResponse(FALSE, 500, TRUE, FALSE, 0, FALSE, FALSE, FALSE, <<>>),
     HTTPResponse(FALSE, StatusOK, FALSE, FALSE, 0, FALSE, FALSE, FALSE, <<>>),
     HTTPResponse(FALSE, StatusOK, TRUE, FALSE, 0, FALSE, FALSE, FALSE, <<>>),
     HTTPResponse(FALSE, StatusOK, TRUE, TRUE, 0, FALSE, FALSE, FALSE, <<>>),
     HTTPResponse(FALSE, StatusOK, TRUE, TRUE, 1, FALSE, FALSE, FALSE, <<>>),
     HTTPResponse(FALSE, StatusOK, TRUE, TRUE, 1, TRUE, FALSE, FALSE, <<>>),
     HTTPResponse(FALSE, StatusOK, TRUE, TRUE, 1, TRUE, TRUE, FALSE, <<>>)}
    \cup {HTTPResponse(FALSE, StatusOK, TRUE, TRUE, 1, TRUE, TRUE, TRUE, r) :
            r \in Replies}

(***************************************************************************)
(* queryGPT (lines 451-509).                                               *)
(***************************************************************************)
\* Lines 452-463: the prompt is appended to the history as a system message,
\* and the request body is marshalled (its strings coerced to valid UTF-8).
queryGPT_request_Stream(prompt, temperature, tokenCount, chatHistory) ==
    LET messages == chatHistory \o <<[role |-> "system", content |-> prompt]>>
    IN [model             |-> "gpt-4o",
        messages          |-> [i \in 1..Len(messages) |->
                                 [role    |-> messages[i].role,
                                  content |-> ToValidUTF8(messages[i].content)]],
        max_tokens        |-> tokenCount,
        temperature       |-> temperature,
        frequency_penalty |-> "1.4",
        presence_penalty  |-> "1.0",
        top_p             |-> "0.9",
        n                 |-> 1,
        stream            |-> TRUE]
queryGPT_request(prompt, temperature, tokenCount, chatHistory) ==
    LET messages == chatHistory \o <<[role |-> "system", content |-> prompt]>>
    IN [model             |-> "gpt-4o",
        messages          |-> [i \in 1..Len(messages) |->
                                 [role    |-> messages[i].role,
                                  content |-> ToValidUTF8(messages[i].content)]],
        max_tokens        |-> tokenCount,
        temperature       |-> temperature,
        frequency_penalty |-> "1.4",
        presence_penalty  |-> "1.0",
        top_p             |-> "0.9",
        n                 |-> 1]

\* Lines 476-508: what the call makes of the response: the text returned, or
\* the end of the process (log.Fatalf, or the panic of the unchecked type
\* assertion on choices[0]).
queryGPT_Fallback(resp) ==
    IF /\ ~resp.neterr /\ resp.status = StatusOK /\ resp.decodes
       /\ resp.choicesIsArray /\ resp.nChoices > 0 /\ resp.choiceIsObject
       /\ resp.messageIsObject /\ resp.contentIsString
    THEN [exit |-> FALSE, responseText |-> resp.content]
    ELSE [exit |-> FALSE, responseText |-> <<>>]
queryGPT_response(resp) ==
    IF resp.neterr THEN [exit |-> TRUE, responseText |-> <<>>]
    ELSE IF resp.status # StatusOK THEN [exit |-> TRUE, responseText |-> <<>>]
    ELSE IF ~resp.decodes THEN [exit |-> TRUE, responseText |-> <<>>]
    ELSE IF ~resp.choicesIsArray \/ resp.nChoices = 0
         THEN [exit |-> TRUE, responseText |-> <<>>]
    ELSE IF ~resp.choiceIsObject THEN [exit |-> TRUE, responseText |-> <<>>]
    ELSE IF ~resp.messageIsObject THEN [exit |-> TRUE, responseText |-> <<>>]
    ELSE IF ~resp.contentIsString THEN [exit |-> TRUE, responseText |-> <<>>]
    ELSE [exit |-> FALSE, responseText |-> resp.content]

(***************************************************************************)
(* sendChat (lines 357-449).                                               *)
(***************************************************************************)
\* Lines 361-362.  The variable is assigned and never read.
systemMessage(config) ==
    <<"You are an AI named ">> \o config.AIName
    \o <<". The user's name is ">> \o config.UserName
    \o <<". Here is some information about the user: ">> \o config.Bio
    \o <<". Your personality is: ">> \o config.Personality
    \o <<". Avoid repeating phrases or sentences.">>

\* Lines 373-379.
leftBrainPrompt == <<"Answer the prompt logically">>
rightBrainPrompt == <<"Answer the prompt creatively">>
memoryMoodDefensePrompt == <<"Summarize this conversation and determine its mood">>
execPrompt ==
    <<"Take both of these answers and combine them into an answer that is both logical and creative">>

\* The command a process runs and its arguments, the local variables of
\* sendChat before any is assigned, and the error log.Fatalf reported.
NoTurn ==
    [cmd |-> "none", args |-> <<>>, err |-> "none", out |-> <<>>,
     prompt |-> <<>>, config |-> ZeroConfig, chatHistory |-> <<>>,
     memoryMoodDefenseResponse |-> <<>>, leftBrainResponse |-> <<>>,
     rightBrainResponse |-> <<>>, execResponse |-> <<>>,
     chatLog |-> ZeroChatLog, logFilePath |-> 0, logs |-> <<>>]

\* Lines 383-395: the history handed to the left and right brain calls.
brainHistory(t) ==
    <<[role |-> "system",
       content |-> <<"Summary of chat so far: ">> \o t.memoryMoodDefenseResponse]>>

\* Lines 397-410: the history handed to the executive call.
execHistory_Swapped(t) ==
    <<[role |-> "system",
       content |-> <<"Summary of chat so far: ">> \o t.memoryMoodDefenseResponse],
      [role |-> "system",
       content |-> <<"This is what you left brain says: \n">> \o t.rightBrainResponse],
      [role |-> "system",
       content |-> <<"This is what your right brain says: \n">> \o t.leftBrainResponse]>>
execHistory(t) ==
    <<[role |-> "system",
       content |-> <<"Summary of chat so far: ">> \o t.memoryMoodDefenseResponse],
      [role |-> "system",
       content |-> <<"This is what you left brain says: \n">> \o t.leftBrainResponse],
      [role |-> "system",
       content |-> <<"This is what your right brain says: \n">> \o t.rightBrainResponse]>>

\* The statements of sendChat in their order: each queryGPT call is a
\* request sent and a response awaited; then the log is read and written,
\* and updateSummary and updateState run.
StageAfter_ExecEarly(stage) ==
    CASE stage = "summarize"      -> "summarize_wait"
      [] stage = "summarize_wait" -> "left"
      [] stage = "left"           -> "left_wait"
      [] stage = "left_wait"      -> "exec"
      [] stage = "exec"           -> "exec_wait"
      [] stage = "exec_wait"      -> "right"
      [] stage = "right"          -> "right_wait"
      [] stage = "right_wait"     -> "log_read"
      [] stage = "log_read"       -> "log_write"
      [] stage = "log_write"      -> "finish"
      [] stage = "finish"         -> "done"
StageAfter(stage) ==
    CASE stage = "summarize"      -> "summarize_wait"
      [] stage = "summarize_wait" -> "left"
      [] stage = "left"           -> "left_wait"
      [] stage = "left_wait"      -> "right"
      [] stage = "right"          -> "right_wait"
      [] stage = "right_wait"     -> "exec"
      [] stage = "exec"           -> "exec_wait"
      [] stage = "exec_wait"      -> "log_read"
      [] stage = "log_read"       -> "log_write"
      [] stage = "log_write"      -> "finish"
      [] stage = "finish"         -> "done"

CallStages == {"summarize", "left", "right", "exec"}
WaitStages == {"summarize_wait", "left_wait", "right_wait", "exec_wait"}

\* The request of the queryGPT call at a stage (lines 381, 383, 390, 397).
stageRequest(stage, t) ==
    CASE stage = "summarize" ->
           queryGPT_request(memoryMoodDefensePrompt, "0.4", 72, t.chatHistory)
      [] stage = "left" ->
           queryGPT_request(leftBrainPrompt, "0.2", 512, brainHistory(t))
      [] stage = "right" ->
           queryGPT_request(rightBrainPrompt, "1.0", 512, brainHistory(t))
      [] stage = "exec" ->
           queryGPT_request(execPrompt \o t.prompt, "0.6", 1024, execHistory(t))

\* The variable a call's result is assigned to.
stageResult(stage, t, responseText) ==
    CASE stage = "summarize_wait" -> [t EXCEPT !.memoryMoodDefenseResponse = responseText]
      [] stage = "left_wait"      -> [t EXCEPT !.leftBrainResponse = responseText]
      [] stage = "right_wait"     -> [t EXCEPT !.rightBrainResponse = responseText]
      [] stage = "exec_wait"      -> [t EXCEPT !.execResponse = responseText]

\* Entries in all the logs.
RECURSIVE SumLen(_, _)
SumLen(fs, days) ==
    IF days = {} THEN 0
    ELSE LET d == CHOOSE x \in days : TRUE
         IN Len(fs[d].data) + SumLen(fs, days \ {d})
Logged == SumLen(logFiles, DOMAIN logFiles)

\* log.Fatalf: the message is printed and the process ends, whatever it
\* was doing.
Fatalf(p, cmd, args, err) ==
    /\ pc' = [pc EXCEPT ![p] = "fatal"]
    /\ turn' = [turn EXCEPT ![p] =
                  [@ EXCEPT !.cmd = cmd, !.args = args, !.err = err]]

\* Lines 357-379: the config and the trimmed history are read, and the
\* prompt is appended to the history as a user message.  A file that does
\* not parse ends the process (lines 238 and 557).
SendChatStart(p, prompt) ==
    /\ pc[p] = "idle"
    /\ IF ~configParses
       THEN Fatalf(p, "sendChat", <<prompt>>, "Error parsing config file")
       ELSE IF ~logsParse(logFiles, getLastTwoDaysLogFiles)
       THEN Fatalf(p, "sendChat", <<prompt>>, "Error parsing chat log")
       ELSE /\ turn' = [turn EXCEPT ![p] =
                         [NoTurn EXCEPT
                            !.cmd = "sendChat",
                            !.args = <<prompt>>,
                            !.prompt = prompt,
                            !.config = getConfig,
                            !.chatHistory =
                               truncateChatHistory(getChatHistory, HistoryBudget)
                               \o <<[role |-> "user", content |-> prompt]>>]]
            /\ pc' = [pc EXCEPT ![p] = "summarize"]
    /\ UNCHANGED <<now, files, calls, trimVars>>

\* queryGPT, lines 451-476: the request is built and sent.
QueryGPTSend(p) ==
    /\ pc[p] \in CallStages
    /\ calls' = [calls EXCEPT ![p] =
                   Append(@, [request |-> stageRequest(pc[p], turn[p]),
                              answered |-> FALSE,
                              response |-> NoResponse])]
    /\ pc' = [pc EXCEPT ![p] = StageAfter(pc[p])]
    /\ UNCHANGED <<now, files, turn, trimVars>>

\* queryGPT, lines 476-508, and the assignment of its result in sendChat:
\* the response arrives; any failure ends the process.
QueryGPTReturn(p, resp) ==
    /\ pc[p] \in WaitStages
    /\ calls' = [calls EXCEPT ![p][Len(calls[p])] =
                   [@ EXCEPT !.answered = TRUE, !.response = resp]]
    /\ LET r == queryGPT_response(resp)
       IN IF r.exit
          THEN Fatalf(p, turn[p].cmd, turn[p].args, "Error calling GPT-4 API")
          ELSE /\ pc' = [pc EXCEPT ![p] = StageAfter(pc[p])]
               /\ turn' = [turn EXCEPT ![p] = stageResult(pc[p], @, r.responseText)]
    /\ UNCHANGED <<now, files, trimVars>>

\* Lines 413-434: the answer is shown, the entry is built, and today's log
\* is read.
newChatLog_Draft(t) ==
    [Timestamp |-> now, Request |-> t.prompt, Response |-> t.rightBrainResponse]
newChatLog(t) ==
    [Timestamp |-> now, Request |-> t.prompt, Response |-> t.execResponse]

SendChatReadLog(p) ==
    /\ pc[p] = "log_read"
    /\ LET data == ReadLogFile(logFiles, getLogFilePath)
       IN IF data.exists /\ ~data.parses
          THEN Fatalf(p, turn[p].cmd, turn[p].args, "Error parsing chat log")
          ELSE /\ turn' = [turn EXCEPT
                            ![p].chatLog = newChatLog(turn[p]),
                            ![p].logFilePath = getLogFilePath,
                            ![p].logs = IF data.exists /\ Len(data.data) > 0
                                        THEN UnmarshalLogs(data.data)
                                        ELSE <<>>]
               /\ pc' = [pc EXCEPT ![p] = StageAfter(pc[p])]
    /\ UNCHANGED <<now, files, calls, trimVars>>

\* Lines 436-445: the entry is appended and the whole log written back.
appendLog_Overwrite(logs, chatLog) == <<chatLog>>
appendLog(logs, chatLog) == Append(logs, chatLog)

SendChatWriteLog(p) ==
    /\ pc[p] = "log_write"
    /\ turn' = [turn EXCEPT ![p].logs = appendLog(@, turn[p].chatLog)]
    /\ logFiles' = [logFiles EXCEPT ![turn[p].logFilePath] =
                      [exists |-> TRUE, parses |-> TRUE,
                       data |-> MarshalLogs(turn'[p].logs)]]
    /\ pc' = [pc EXCEPT ![p] = StageAfter(pc[p])]
    /\ UNCHANGED <<now, configFile, stateFile, summaryFile, calls, trimVars>>

\* time.Time.Format(time.RFC1123), as text.
FormatTime(t) == <<ToString(t)>>

\* summarizeLogs (lines 767-773).
RECURSIVE summarizeLogs(_)
summarizeLogs(logs) ==
    IF logs = <<>>
    THEN <<>>
    ELSE <<"- ">> \o FormatTime(Head(logs).Timestamp) \o <<": ">>
         \o Head(logs).Response \o <<"\n">> \o summarizeLogs(Tail(logs))

\* updateSummary (lines 738-765): the summary file afterwards.
updateSummary ==
    LET logs == readLogs(logFiles, getLastTwoDaysLogFiles)
    IN IF Len(logs) > SummaryThreshold
       THEN [exists |-> TRUE, parses |-> TRUE,
             data |-> summarizeLogs(SubSeq(logs, 1, Len(logs) - SummaryKeep))]
       ELSE summaryFile

\* updateState (lines 775-779): the state file afterwards.
updateState == saveState([getState EXCEPT !.LastInteraction = now])

\* Lines 447-448: updateSummary, then updateState.  ioErr: a file operation
\* of updateSummary fails (ioutil.ReadFile with an error other than
\* not-exist, line 745, or ioutil.WriteFile, line 761); that, a log that
\* does not parse (line 752) and a state file that does not parse (line 793)
\* each end the process where they happen.
SendChatFinish(p, ioErr) ==
    /\ pc[p] = "finish"
    /\ IF ioErr
       THEN /\ Fatalf(p, turn[p].cmd, turn[p].args, "Error reading or writing summary")
            /\ UNCHANGED <<summaryFile, stateFile>>
       ELSE IF ~logsParse(logFiles, getLastTwoDaysLogFiles)
       THEN /\ Fatalf(p, turn[p].cmd, turn[p].args, "Error parsing chat log")
            /\ UNCHANGED <<summaryFile, stateFile>>
       ELSE IF ~stateParses
       THEN /\ Fatalf(p, turn[p].cmd, turn[p].args, "Error parsing state file")
            /\ summaryFile' = updateSummary
            /\ UNCHANGED stateFile
       ELSE /\ summaryFile' = updateSummary
            /\ stateFile' = updateState
            /\ pc' = [pc EXCEPT ![p] = StageAfter(pc[p])]
            /\ UNCHANGED turn
    /\ UNCHANGED <<now, logFiles, configFile, calls, trimVars>>

\* The process ends (main returns, or log.Fatalf has called os.Exit).
Exit(p) ==
    /\ pc[p] \in {"done", "fatal"}
    /\ pc' = [pc EXCEPT ![p] = "idle"]
    /\ turn' = [turn EXCEPT ![p] = NoTurn]
    /\ calls' = [calls EXCEPT ![p] = <<>>]
    /\ UNCHANGED <<now, files, trimVars>>

(***************************************************************************)
(* The other commands of main.                                             *)
(***************************************************************************)
\* clearChatLog (lines 262-276): the log directory is emptied, then the
\* summary file removed; os.Remove fails when there is none.
ClearChatLog(p) ==
    /\ pc[p] = "idle"
    /\ logFiles' = [d \in DOMAIN logFiles |-> AbsentLog]
    /\ summaryFile' = AbsentSummary
    /\ IF summaryFile.exists
       THEN /\ pc' = [pc EXCEPT ![p] = "done"]
            /\ turn' = [turn EXCEPT ![p].cmd = "clearChatLog"]
       ELSE Fatalf(p, "clearChatLog", <<>>, "Error clearing summary file")
    /\ UNCHANGED <<now, configFile, stateFile, calls, trimVars>>

\* saveConfig (lines 251-260).
saveConfig(config) == [exists |-> TRUE, parses |-> TRUE, data |-> MarshalConfig(config)]

\* savePersonality (lines 223-228).
SavePersonality(p, personality) ==
    /\ pc[p] = "idle"
    /\ personality # <<>>
    /\ IF ~configParses
       THEN /\ Fatalf(p, "savePersonality", <<personality>>, "Error parsing config file")
            /\ UNCHANGED configFile
       ELSE /\ configFile' = saveConfig([getConfig EXCEPT !.Personality = personality])
            /\ pc' = [pc EXCEPT ![p] = "done"]
            /\ turn' = [turn EXCEPT ![p].cmd = "savePersonality",
                                    ![p].args = <<personality>>]
    /\ UNCHANGED <<now, logFiles, stateFile, summaryFile, calls, trimVars>>

\* updateConfig (lines 810-823): an empty argument leaves its field.
updatedConfig_Reset(config, userName, aiName, bio) ==
    [UserName |-> userName, AIName |-> aiName, Bio |-> bio, Personality |-> <<>>]
updatedConfig(config, userName, aiName, bio) ==
    LET c1 == IF userName # <<>> THEN [config EXCEPT !.UserName = userName] ELSE config
        c2 == IF aiName # <<>> THEN [c1 EXCEPT !.AIName = aiName] ELSE c1
    IN IF bio # <<>> THEN [c2 EXCEPT !.Bio = bio] ELSE c2

UpdateConfig(p, userName, aiName, bio) ==
    /\ pc[p] = "idle"
    /\ userName # <<>> \/ aiName # <<>> \/ bio # <<>>
    /\ IF ~configParses
       THEN /\ Fatalf(p, "updateConfig", <<userName, aiName, bio>>, "Error parsing config file")
            /\ UNCHANGED configFile
       ELSE /\ configFile' = saveConfig(updatedConfig(getConfig, userName, aiName, bio))
            /\ pc' = [pc EXCEPT ![p] = "done"]
            /\ turn' = [turn EXCEPT ![p].cmd = "updateConfig",
                                    ![p].args = <<userName, aiName, bio>>]
    /\ UNCHANGED <<now, logFiles, stateFile, summaryFile, calls, trimVars>>

\* The clock: a day passes.  Within a day the clock stands still: sendChat
\* uses the time only for the day of the log path and the entry's timestamp.
Tick ==
    /\ Day(now) + 1 \in DOMAIN logFiles
    /\ now' = now + DayHours
    /\ UNCHANGED <<files, pc, turn, calls, trimVars>>

\* The loop of printChatLog (lines 280-301) over the paths: a file that
\* cannot be read, missing ones included, or does not parse ends the process
\* after the entries of the paths before it are printed.
RECURSIVE printLoop(_, _, _, _)
printLoop(fs, paths, lines, printed) ==
    IF paths = <<>>
    THEN [err |-> "none", printed |-> printed]
    ELSE LET f == ReadLogFile(fs, Head(paths))
             logs == IF f.exists /\ f.parses /\ Len(f.data) > 0
                     THEN UnmarshalLogs(f.data)
                     ELSE <<>>
             shown == IF lines > 0 /\ Len(logs) > lines
                      THEN SubSeq(logs, Len(logs) - lines + 1, Len(logs))
                      ELSE logs
         IN IF ~f.exists
            THEN [err |-> "Error reading chat log", printed |-> printed]
            ELSE IF ~f.parses
            THEN [err |-> "Error parsing chat log", printed |-> printed]
            ELSE printLoop(fs, Tail(paths), lines, printed \o shown)

\* printChatLog (lines 278-302), the command -a with -n lines.
PrintChatLog(p, lines) ==
    /\ pc[p] = "idle"
    /\ LET r == printLoop(logFiles, getLastTwoDaysLogFiles, lines, <<>>)
       IN /\ pc' = [pc EXCEPT ![p] = IF r.err = "none" THEN "done" ELSE "fatal"]
          /\ turn' = [turn EXCEPT ![p].cmd = "printChatLog",
                                  ![p].args = <<lines>>,
                                  ![p].err = r.err,
                                  ![p].out = r.printed]
    /\ UNCHANGED <<now, files, calls, trimVars>>

\* displayNewMessage (lines 709-722), the command -r.
DisplayNewMessage(p) ==
    /\ pc[p] = "idle"
    /\ IF ~logsParse(logFiles, getLastTwoDaysLogFiles)
       THEN Fatalf(p, "displayNewMessage", <<>>, "Error parsing chat log")
       ELSE LET chatHistory == getChatHistory
            IN /\ pc' = [pc EXCEPT ![p] = "done"]
               /\ turn' = [turn EXCEPT
                             ![p].cmd = "displayNewMessage",
                             ![p].chatHistory = chatHistory,
                             ![p].out =
                                IF Len(chatHistory) > 0
                                   /\ chatHistory[Len(chatHistory)].role = "assistant"
                                THEN <<chatHistory[Len(chatHistory)].content>>
                                ELSE <<(<<"No new messages.">>)>>]
    /\ UNCHANGED <<now, files, calls, trimVars>>

\* toggleCheckInFeature (lines 702-707), the command -t.
ToggleCheckInFeature(p) ==
    /\ pc[p] = "idle"
    /\ IF ~stateParses
       THEN /\ Fatalf(p, "toggleCheckInFeature", <<>>, "Error parsing state file")
            /\ UNCHANGED stateFile
       ELSE /\ stateFile' = saveState([getState EXCEPT !.CheckInEnabled = ~@])
            /\ pc' = [pc EXCEPT ![p] = "done"]
            /\ turn' = [turn EXCEPT ![p].cmd = "toggleCheckInFeature"]
    /\ UNCHANGED <<now, logFiles, configFile, summaryFile, calls, trimVars>>

\* Line 35.
checkInMessage ==
    <<"Hey there! Just checking in to see how you're doing. Let me know if you need anything!">>

\* sendCheckInMessage, lines 634-646: the request body.
checkInRequest ==
    LET messages == getChatHistory
                    \o <<[role |-> "user",
                          content |-> checkInMessage \o <<Space>> \o getConfig.Personality]>>
    IN [model    |-> "gpt-4",
        messages |-> [i \in 1..Len(messages) |->
                        [role    |-> messages[i].role,
                         content |-> ToValidUTF8(messages[i].content)]]]

\* getState (lines 781-797): the state file after the call: a missing one is
\* created, an existing one is left.
getStateFile_Touch == saveState([getState EXCEPT !.LastInteraction = now])
getStateFile == IF stateFile.exists THEN stateFile ELSE saveState(getState)

\* checkInUser, lines 624-630: the check-in is enabled and the last
\* interaction is more than CheckInHours ago.
checkInDue_IgnoreFlag(state) == now - state.LastInteraction > CheckInHours
checkInDue(state) ==
    state.CheckInEnabled /\ now - state.LastInteraction > CheckInHours

\* checkInUser (lines 622-631) with sendCheckInMessage (lines 633-692): one
\* round of the loop of runAsDaemon (lines 615-620).  getState creates a
\* missing state file; the message is asked for when the check-in is enabled
\* and the last interaction is more than CheckInHours old, and what the
\* endpoint answers is shown as a notification.
CheckInUser(p, resp) ==
    /\ pc[p] = "idle"
    /\ IF ~stateParses
       THEN /\ Fatalf(p, "checkInUser", <<>>, "Error parsing state file")
            /\ UNCHANGED <<stateFile, calls>>
       ELSE /\ stateFile' = getStateFile
            /\ IF ~checkInDue(getState)
               THEN /\ pc' = [pc EXCEPT ![p] = "done"]
                    /\ turn' = [turn EXCEPT ![p].cmd = "checkInUser"]
                    /\ UNCHANGED calls
               ELSE IF ~configParses
               THEN /\ Fatalf(p, "checkInUser", <<>>, "Error parsing config file")
                    /\ UNCHANGED calls
               ELSE IF ~logsParse(logFiles, getLastTwoDaysLogFiles)
               THEN /\ Fatalf(p, "checkInUser", <<>>, "Error parsing chat log")
                    /\ UNCHANGED calls
               ELSE /\ calls' = [calls EXCEPT ![p] =
                                  Append(@, [request |-> checkInRequest,
                                             answered |-> TRUE,
                                             response |-> resp])]
                    /\ IF queryGPT_response(resp).exit
                       THEN Fatalf(p, "checkInUser", <<>>, "Error calling GPT-4 API")
                       ELSE /\ pc' = [pc EXCEPT ![p] = "done"]
                            /\ turn' = [turn EXCEPT
                                          ![p].cmd = "checkInUser",
                                          ![p].out = <<resp.content>>]
    /\ UNCHANGED <<now, logFiles, configFile, summaryFile, trimVars>>

(***************************************************************************)
(* Spec: one process at a time runs a command to its end (section 5 of the *)
(* specification: no concurrent turns).                                    *)
(***************************************************************************)
NoTrim == [history |-> <<>>, limit |-> 0, done |-> FALSE]

Init ==
    /\ now = 0
    /\ logFiles = [d \in Days |-> AbsentLog]
    /\ configFile = AbsentConfig
    /\ stateFile = AbsentState
    /\ summaryFile = AbsentSummary
    /\ pc = [p \in Procs |-> "idle"]
    /\ turn = [p \in Procs |-> NoTurn]
    /\ calls = [p \in Procs |-> <<>>]
    /\ trimIn = NoTrim
    /\ trimOut = <<>>

Alone(p) == \A q \in Procs \ {p} : pc[q] = "idle"

Next ==
    \/ \E p \in Procs, prompt \in Prompts :
         Alone(p) /\ Logged < MaxTurns /\ SendChatStart(p, prompt)
    \/ \E p \in Procs : Alone(p) /\ QueryGPTSend(p)
    \/ \E p \in Procs, resp \in HTTPResponses : Alone(p) /\ QueryGPTReturn(p, resp)
    \/ \E p \in Procs : Alone(p) /\ SendChatReadLog(p)
    \/ \E p \in Procs : Alone(p) /\ SendChatWriteLog(p)
    \/ \E p \in Procs : Alone(p) /\ SendChatFinish(p, FALSE)
    \/ \E p \in Procs : Alone(p) /\ Exit(p)
    \/ \E p \in Procs : Alone(p) /\ ClearChatLog(p)
    \/ \E p \in Procs, personality \in Personalities :
         Alone(p) /\ SavePersonality(p, personality)
    \/ \E p \in Procs, a \in ConfigArgs :
         Alone(p) /\ UpdateConfig(p, a[1], a[2], a[3])
    \/ Tick

Spec == Init /\ [][Next]_vars

(***************************************************************************)
(* SpecTrim: truncateChatHistory applied to every history of at most       *)
(* MaxHist messages and every limit up to MaxLimit.                        *)
(***************************************************************************)
\* Contents of 1, 1, 2, 2 and 3 tokens.
TrimContents == {<<>>, <<"a">>, <<"a", Space, "b">>, <<Space, "b">>, <<Space, Space>>}
TrimMessages == [role : {"user", "assistant"}, content : TrimContents]
RECURSIVE SeqsUpTo(_, _)
SeqsUpTo(S, n) ==
    IF n = 0 THEN {<<>>}
    ELSE LET shorter == SeqsUpTo(S, n - 1)
         IN shorter \cup {Append(h, m) : h \in {x \in shorter : Len(x) = n - 1}, m \in S}
TrimHistories == SeqsUpTo(TrimMessages, MaxHist)

InitTrim ==
    /\ now = 0
    /\ logFiles = [d \in Days |-> AbsentLog]
    /\ configFile = AbsentConfig
    /\ stateFile = AbsentState
    /\ summaryFile = AbsentSummary
    /\ pc = [p \in Procs |-> "idle"]
    /\ turn = [p \in Procs |-> NoTurn]
    /\ calls = [p \in Procs |-> <<>>]
    /\ trimIn \in [history : TrimHistories, limit : 0..MaxLimit, done : {FALSE}]
    /\ trimOut = <<>>

\* The call truncateChatHistory(history, limit) returns.
Truncate ==
    /\ ~trimIn.done
    /\ trimOut' = truncateChatHistory(trimIn.history, trimIn.limit)
    /\ trimIn' = [trimIn EXCEPT !.done = TRUE]
    /\ UNCHANGED <<now, files, pc, turn, calls>>

NextTrim == Truncate

SpecTrim == InitTrim /\ [][NextTrim]_vars

(***************************************************************************)
(* SpecCLI: every command of main, one process at a time, over one more    *)
(* day than Spec, with one answer and one failure of the endpoint.         *)
(***************************************************************************)
CLIDays == 0..(MaxDay + 1)
CLIResponses ==
    {HTTPResponse(FALSE, 500, TRUE, FALSE, 0, FALSE, FALSE, FALSE, <<>>),
     HTTPResponse(FALSE, StatusOK, TRUE, TRUE, 1, TRUE, TRUE, TRUE, <<"a">>)}
\* Values of -n: all the entries, or the last one.
PrintLines == {0, 1}
\* Arguments of -u, -ai and -b: name and bio, or the AI's name alone.
CLIConfigArgs == ConfigArgs \cup {<<(<<>>), (<<"n">>), (<<>>)>>}

InitCLI ==
    /\ now = 0
    /\ logFiles = [d \in CLIDays |-> AbsentLog]
    /\ configFile = AbsentConfig
    /\ stateFile = AbsentState
    /\ summaryFile = AbsentSummary
    /\ pc = [p \in Procs |-> "idle"]
    /\ turn = [p \in Procs |-> NoTurn]
    /\ calls = [p \in Procs |-> <<>>]
    /\ trimIn = NoTrim
    /\ trimOut = <<>>

NextCLI ==
    \/ \E p \in Procs, prompt \in Prompts :
         Alone(p) /\ Logged <= MaxTurns /\ SendChatStart(p, prompt)
    \/ \E p \in Procs : Alone(p) /\ QueryGPTSend(p)
    \/ \E p \in Procs, resp \in CLIResponses : Alone(p) /\ QueryGPTReturn(p, resp)
    \/ \E p \in Procs : Alone(p) /\ SendChatReadLog(p)
    \/ \E p \in Procs : Alone(p) /\ SendChatWriteLog(p)
    \/ \E p \in Procs : Alone(p) /\ SendChatFinish(p, FALSE)
    \/ \E p \in Procs : Alone(p) /\ Exit(p)
    \/ \E p \in Procs : Alone(p) /\ ClearChatLog(p)
    \/ \E p \in Procs, personality \in Personalities :
         Alone(p) /\ SavePersonality(p, personality)
    \/ \E p \in Procs, a \in CLIConfigArgs :
         Alone(p) /\ UpdateConfig(p, a[1], a[2], a[3])
    \/ \E p \in Procs, lines \in PrintLines : Alone(p) /\ PrintChatLog(p, lines)
    \/ \E p \in Procs : Alone(p) /\ DisplayNewMessage(p)
    \/ \E p \in Procs : Alone(p) /\ ToggleCheckInFeature(p)
    \/ \E p \in Procs, resp \in CLIResponses : Alone(p) /\ CheckInUser(p, resp)
    \/ Tick

SpecCLI == InitCLI /\ [][NextCLI]_vars

(***************************************************************************)
(* SpecFaults: the turn and the commands with the failures of the file     *)
(* system: a process killed inside ioutil.WriteFile, which truncates the   *)
(* file before it writes, leaves a document cut short; a file operation of *)
(* updateSummary may return an error.  One prompt, one answer.             *)
(***************************************************************************)
\* What a killed ioutil.WriteFile leaves: nothing written (an empty file), or
\* the beginning of the document, which json.Unmarshal rejects.
TornLog(partial) == [exists |-> TRUE, parses |-> ~partial, data |-> <<>>]
TornConfig == [exists |-> TRUE, parses |-> FALSE, data |-> MarshalConfig(ZeroConfig)]
TornState == [exists |-> TRUE, parses |-> FALSE, data |-> MarshalState(ZeroState)]

\* The process is killed inside the ioutil.WriteFile of line 442.
KilledInWriteLog(p, partial) ==
    /\ pc[p] = "log_write"
    /\ logFiles' = [logFiles EXCEPT ![turn[p].logFilePath] = TornLog(partial)]
    /\ Fatalf(p, turn[p].cmd, turn[p].args, "signal: killed")
    /\ UNCHANGED <<now, configFile, stateFile, summaryFile, calls, trimVars>>

\* The process is killed inside the ioutil.WriteFile of saveState (line 804)
\* that updateState calls at the end of a turn.
KilledInSaveState(p) ==
    /\ pc[p] = "finish"
    /\ logsParse(logFiles, getLastTwoDaysLogFiles)
    /\ stateParses
    /\ summaryFile' = updateSummary
    /\ stateFile' = TornState
    /\ Fatalf(p, turn[p].cmd, turn[p].args, "signal: killed")
    /\ UNCHANGED <<now, logFiles, configFile, calls, trimVars>>

\* The process is killed inside the ioutil.WriteFile of saveConfig (line 256)
\* that savePersonality calls.
KilledInSaveConfig(p, personality) ==
    /\ pc[p] = "idle"
    /\ configParses
    /\ configFile' = TornConfig
    /\ Fatalf(p, "savePersonality", <<personality>>, "signal: killed")
    /\ UNCHANGED <<now, logFiles, stateFile, summaryFile, calls, trimVars>>

FaultPrompts == {<<"q">>}
FaultResponses ==
    {HTTPResponse(FALSE, StatusOK, TRUE, TRUE, 1, TRUE, TRUE, TRUE, <<"a">>)}

NextFaults ==
    \/ \E p \in Procs, prompt \in FaultPrompts :
         Alone(p) /\ Logged < MaxTurns /\ SendChatStart(p, prompt)
    \/ \E p \in Procs : Alone(p) /\ QueryGPTSend(p)
    \/ \E p \in Procs, resp \in FaultResponses : Alone(p) /\ QueryGPTReturn(p, resp)
    \/ \E p \in Procs : Alone(p) /\ SendChatReadLog(p)
    \/ \E p \in Procs : Alone(p) /\ SendChatWriteLog(p)
    \/ \E p \in Procs, ioErr \in BOOLEAN : Alone(p) /\ SendChatFinish(p, ioErr)
    \/ \E p \in Procs : Alone(p) /\ Exit(p)
    \/ \E p \in Procs, personality \in Personalities :
         Alone(p) /\ SavePersonality(p, personality)
    \/ \E p \in Procs, lines \in PrintLines : Alone(p) /\ PrintChatLog(p, lines)
    \/ \E p \in Procs : Alone(p) /\ DisplayNewMessage(p)
    \/ \E p \in Procs : Alone(p) /\ ToggleCheckInFeature(p)
    \/ \E p \in Procs, partial \in BOOLEAN : Alone(p) /\ KilledInWriteLog(p, partial)
    \/ \E p \in Procs : Alone(p) /\ KilledInSaveState(p)
    \/ \E p \in Procs, personality \in Personalities :
         Alone(p) /\ KilledInSaveConfig(p, personality)
    \/ Tick

SpecFaults == Init /\ [][NextFaults]_vars

(***************************************************************************)
(* SpecConcurrent: two processes run sendChat at the same time (two        *)
(* command lines, or a command line beside an interactive session): their  *)
(* steps interleave freely, nothing in the code orders them.               *)
(***************************************************************************)
ConcurrentProcs == {1, 2}

InitConcurrent ==
    /\ now = 0
    /\ logFiles = [d \in Days |-> AbsentLog]
    /\ configFile = AbsentConfig
    /\ stateFile = AbsentState
    /\ summaryFile = AbsentSummary
    /\ pc = [p \in ConcurrentProcs |-> "idle"]
    /\ turn = [p \in ConcurrentProcs |-> NoTurn]
    /\ calls = [p \in ConcurrentProcs |-> <<>>]
    /\ trimIn = NoTrim
    /\ trimOut = <<>>

NextConcurrent ==
    \/ \E p \in ConcurrentProcs, prompt \in Prompts :
         Logged < MaxTurns /\ SendChatStart(p, prompt)
    \/ \E p \in ConcurrentProcs : QueryGPTSend(p)
    \/ \E p \in ConcurrentProcs, resp \in FaultResponses : QueryGPTReturn(p, resp)
    \/ \E p \in ConcurrentProcs : SendChatReadLog(p)
    \/ \E p \in ConcurrentProcs : SendChatWriteLog(p)
    \/ \E p \in ConcurrentProcs : SendChatFinish(p, FALSE)
    \/ \E p \in ConcurrentProcs : Exit(p)
    \/ Tick

SpecConcurrent == InitConcurrent /\ [][NextConcurrent]_vars

(***************************************************************************)
(* SpecDaemon: the daemon beside the user, hour by hour within one day:    *)
(* rounds of checkInUser, chat turns, toggle and -r, one process at a      *)
(* time.  The endpoint answers a check-in with its own text, or fails.     *)
(***************************************************************************)
\* The clock: an hour passes.
Hour ==
    /\ now < MaxHour
    /\ now' = now + 1
    /\ UNCHANGED <<files, pc, turn, calls, trimVars>>

CheckInReply == <<"c">>
CheckInResponses ==
    {HTTPResponse(FALSE, 500, TRUE, FALSE, 0, FALSE, FALSE, FALSE, <<>>),
     HTTPResponse(FALSE, StatusOK, TRUE, TRUE, 1, TRUE, TRUE, TRUE, CheckInReply)}

NextDaemon ==
    \/ \E p \in Procs, prompt \in FaultPrompts :
         Alone(p) /\ Logged < MaxTurns /\ SendChatStart(p, prompt)
    \/ \E p \in Procs : Alone(p) /\ QueryGPTSend(p)
    \/ \E p \in Procs, resp \in CLIResponses : Alone(p) /\ QueryGPTReturn(p, resp)
    \/ \E p \in Procs : Alone(p) /\ SendChatReadLog(p)
    \/ \E p \in Procs : Alone(p) /\ SendChatWriteLog(p)
    \/ \E p \in Procs : Alone(p) /\ SendChatFinish(p, FALSE)
    \/ \E p \in Procs : Alone(p) /\ Exit(p)
    \/ \E p \in Procs : Alone(p) /\ DisplayNewMessage(p)
    \/ \E p \in Procs : Alone(p) /\ ToggleCheckInFeature(p)
    \/ \E p \in Procs, resp \in CheckInResponses : Alone(p) /\ CheckInUser(p, resp)
    \/ Hour

SpecDaemon == Init /\ [][NextDaemon]_vars

(***************************************************************************)
(* Properties.                                                             *)
(***************************************************************************)
Last(s) == s[Len(s)]
IsSuffix(s, t) == Len(s) <= Len(t) /\ SubSeq(t, Len(t) - Len(s) + 1, Len(t)) = s
\* s occurs in t as a contiguous part.
Contains(t, s) == \E k \in 0..(Len(t) - Len(s)) : SubSeq(t, k + 1, k + Len(s)) = s
\* What the endpoint answered is a completion: a success status, a body of
\* the expected shape, at least one choice.
ResponseOK(resp) ==
    /\ ~resp.neterr /\ resp.status = StatusOK /\ resp.decodes
    /\ resp.choicesIsArray /\ resp.nChoices >= 1 /\ resp.choiceIsObject
    /\ resp.messageIsObject /\ resp.contentIsString
\* The instruction a request carries: its last message.
CallInstruction(c) == Last(c.request.messages).content
\* The instructions of Summarize, Analyze-logical, Analyze-creative, Synthesize.
StageInstructions(prompt) ==
    <<memoryMoodDefensePrompt, leftBrainPrompt, rightBrainPrompt,
      execPrompt \o ToValidUTF8(prompt)>>
\* The cumulative cost of a history, as truncateChatHistory counts it.
RECURSIVE Cost(_)
Cost(h) == IF h = <<>> THEN 0 ELSE messageTokens(Head(h)) + Cost(Tail(h))
InTurn(p) == turn[p].cmd = "sendChat"

\* C1: a turn changes the logs only by its write, and the write makes the
\* day's log the old log plus the turn's entry at the end: every earlier
\* entry stays, unchanged and in place, and the other days' logs are untouched.
C1_AppendOnly ==
    [][\A p \in Procs :
         InTurn(p) /\ pc[p] \notin {"done", "fatal"} =>
           IF pc[p] = "log_write" /\ pc'[p] # pc[p]
           THEN LET d == turn[p].logFilePath
                IN /\ logFiles'[d].exists
                   /\ logFiles'[d].data =
                        Append(logFiles[d].data, MarshalChatLog(turn[p].chatLog))
                   /\ \A e \in Days \ {d} : logFiles'[e] = logFiles[e]
           ELSE logFiles' = logFiles]_vars
\* A second turn of the day has written its entry after the first one's.
C1_Witness ==
    \E p \in Procs :
      /\ pc[p] = "finish"
      /\ Len(logFiles[turn[p].logFilePath].data) = 2
      /\ logFiles[turn[p].logFilePath].data[1].request
           # logFiles[turn[p].logFilePath].data[2].request

\* C2: a completion call that fails is the last call of its process, which
\* ends there (no retry, no fallback), and from the start of a turn to the
\* failure no step changes any log.
C2_FailureAborts ==
    /\ [](\A p \in Procs : \A i \in 1..Len(calls[p]) :
            calls[p][i].answered /\ ~ResponseOK(calls[p][i].response) =>
              i = Len(calls[p]) /\ pc[p] = "fatal")
    /\ [][\A p \in Procs :
            /\ pc'[p] = "summarize" => logFiles' = logFiles
            /\ InTurn(p) /\ pc[p] \in CallStages \cup WaitStages \cup {"fatal"} =>
                 /\ logFiles' = logFiles
                 /\ pc[p] = "fatal" => pc'[p] \in {"fatal", "idle"}]_vars
\* The creative Analyze call of a turn has failed, with an entry in the log.
C2_Witness ==
    \E p \in Procs :
      /\ pc[p] = "fatal" /\ InTurn(p)
      /\ Len(calls[p]) = 3
      /\ Logged = 1

\* C3: the cumulative cost of the history truncateChatHistory returns is at
\* most the limit.
C3_Budget == trimIn.done => Cost(trimOut) <= trimIn.limit
\* Messages were dropped and the kept ones use the whole limit.
C3_Witness ==
    /\ trimIn.done
    /\ 0 < Len(trimOut) /\ Len(trimOut) < Len(trimIn.history)
    /\ Cost(trimOut) = trimIn.limit

\* C4: the result of truncateChatHistory is a contiguous suffix of the
\* history: the kept messages unmodified and in their order, the dropped
\* ones all older.
C4_Suffix ==
    trimIn.done =>
      \E k \in 0..Len(trimIn.history) :
        trimOut = SubSeq(trimIn.history, k + 1, Len(trimIn.history))
\* Two different messages were kept and an older one dropped.
C4_Witness ==
    /\ trimIn.done
    /\ Len(trimOut) >= 2 /\ Len(trimOut) < Len(trimIn.history)
    /\ trimOut[1] # trimOut[2]

\* C5, as claimed: of a non-empty history the most recent message is always
\* kept.
C5_KeepsMostRecent ==
    trimIn.done /\ trimIn.history # <<>> =>
      trimOut # <<>> /\ Last(trimOut) = Last(trimIn.history)
\* C5, amended: the most recent message is kept exactly when its cost alone
\* is at most the limit; otherwise the result is empty.
C5_KeepsMostRecentIfItFits ==
    trimIn.done /\ trimIn.history # <<>> =>
      IF Len(Split(Last(trimIn.history).content, Space)) <= trimIn.limit
      THEN trimOut # <<>> /\ Last(trimOut) = Last(trimIn.history)
      ELSE trimOut = <<>>
\* The most recent message alone exceeds the limit, an older one would fit,
\* and nothing is kept.
C5_Witness ==
    /\ trimIn.done
    /\ Len(trimIn.history) >= 2
    /\ messageTokens(Last(trimIn.history)) > trimIn.limit
    /\ messageTokens(trimIn.history[Len(trimIn.history) - 1]) <= trimIn.limit
    /\ trimOut = <<>>

\* C6: the calls of a turn are, in this order, Summarize, Analyze-logical,
\* Analyze-creative and Synthesize, each sent only when every earlier one
\* has returned a completion; a turn past Synthesize has made exactly these
\* four; and a turn changes a log only after Synthesize has returned.
C6_StageOrder ==
    /\ [](\A p \in Procs :
            InTurn(p) =>
              /\ Len(calls[p]) <= 4
              /\ \A i \in 1..Len(calls[p]) :
                   /\ CallInstruction(calls[p][i]) = StageInstructions(turn[p].prompt)[i]
                   /\ i < Len(calls[p]) =>
                        calls[p][i].answered /\ ResponseOK(calls[p][i].response)
              /\ pc[p] \in {"log_read", "log_write", "finish", "done"} =>
                   /\ Len(calls[p]) = 4
                   /\ calls[p][4].answered /\ ResponseOK(calls[p][4].response))
    /\ [][\A p \in Procs :
            InTurn(p) /\ logFiles' # logFiles =>
              /\ Len(calls[p]) = 4
              /\ calls[p][4].answered /\ ResponseOK(calls[p][4].response)]_vars
\* A turn has run to its end.
C6_Witness ==
    \E p \in Procs : pc[p] = "done" /\ InTurn(p) /\ Len(calls[p]) = 4 /\ Logged = 2

\* C7: the Synthesize request carries the digest, the logical answer and the
\* creative answer each at the end of a message of its own, in this order,
\* after three different labels.
C7_FusionComposition ==
    \A p \in Procs :
      InTurn(p) /\ Len(calls[p]) >= 4 =>
        LET m == calls[p][4].request.messages
            S == calls[p][1].response.content
            L == calls[p][2].response.content
            C == calls[p][3].response.content
            Label(c, x) == SubSeq(c, 1, Len(c) - Len(x))
        IN /\ Len(m) >= 3
           /\ IsSuffix(S, m[1].content) /\ Label(m[1].content, S) # <<>>
           /\ IsSuffix(L, m[2].content) /\ Label(m[2].content, L) # <<>>
           /\ IsSuffix(C, m[3].content) /\ Label(m[3].content, C) # <<>>
           /\ Label(m[1].content, S) # Label(m[2].content, L)
           /\ Label(m[1].content, S) # Label(m[3].content, C)
           /\ Label(m[2].content, L) # Label(m[3].content, C)
\* Synthesize was sent with a logical answer that differs from the creative
\* answer and from the digest.
C7_Witness ==
    \E p \in Procs :
      /\ InTurn(p) /\ Len(calls[p]) = 4
      /\ calls[p][2].response.content # calls[p][3].response.content
      /\ calls[p][1].response.content # calls[p][2].response.content

\* C8, as claimed: each Analyze request carries the digest and the user's
\* prompt, and no message of the conversation history.
C8_AnalyzeContext ==
    \A p \in Procs : \A i \in {2, 3} :
      InTurn(p) /\ i <= Len(calls[p]) =>
        LET m == calls[p][i].request.messages
            h == turn[p].chatHistory
        IN /\ \E k \in 1..Len(m) : Contains(m[k].content, calls[p][1].response.content)
           /\ \E k \in 1..Len(m) : Contains(m[k].content, ToValidUTF8(turn[p].prompt))
           /\ \A k \in 1..Len(m) : \A j \in 1..(Len(h) - 1) :
                m[k].content # ToValidUTF8(h[j].content)

\* C9, as claimed: the first request of a turn starts with one system
\* message built from the persona, then the trimmed history, then the user
\* message with the prompt.
C9_ContextOrder ==
    \A p \in Procs :
      InTurn(p) /\ Len(calls[p]) >= 1 =>
        LET m == calls[p][1].request.messages
            h == turn[p].chatHistory
        IN /\ Len(m) >= Len(h) + 1
           /\ m[1] = [role |-> "system",
                      content |-> ToValidUTF8(systemMessage(turn[p].config))]
           /\ \A j \in 1..Len(h) :
                m[j + 1] = [role |-> h[j].role, content |-> ToValidUTF8(h[j].content)]

\* The write of a turn adds one entry with this request and response to the
\* log of the entry's day, and no other step of the turn changes a log.
TurnLogs(p, request, response) ==
    InTurn(p) /\ pc[p] \notin {"done", "fatal"} =>
      IF pc[p] = "log_write" /\ pc'[p] # pc[p]
      THEN \E d \in Days :
             /\ Len(logFiles'[d].data) = Len(logFiles[d].data) + 1
             /\ Day(Last(logFiles'[d].data).timestamp) = d
             /\ Last(logFiles'[d].data).request = request
             /\ Last(logFiles'[d].data).response = response
             /\ \A e \in Days \ {d} : logFiles'[e] = logFiles[e]
      ELSE logFiles' = logFiles

\* C10, as claimed: a turn appends exactly one entry, whose request is the
\* prompt and whose response is the text Synthesize returned.
C10_LoggedAsGiven ==
    [][\A p \in Procs :
         TurnLogs(p, turn[p].prompt, calls[p][4].response.content)]_vars
\* C10, amended: the request of the entry is the prompt as JSON text, every
\* byte that is not valid UTF-8 replaced by U+FFFD.
C10_LoggedAsJSON ==
    [][\A p \in Procs :
         TurnLogs(p, ToValidUTF8(turn[p].prompt), calls[p][4].response.content)]_vars
\* A turn whose prompt is not valid UTF-8 has written its entry, and the
\* text of Synthesize differs from the creative answer.
C10_Witness ==
    \E p \in Procs :
      /\ pc[p] = "finish"
      /\ ToValidUTF8(turn[p].prompt) # turn[p].prompt
      /\ Last(logFiles[turn[p].logFilePath].data).request # turn[p].prompt
      /\ calls[p][4].response.content # calls[p][3].response.content

\* A turn starts: sendChat has read the config and built its history.
StartsTurn(p) == pc[p] = "idle" /\ pc'[p] = "summarize"
\* The history sendChat built from the logs: its history without the prompt.
BuiltHistory(t) == SubSeq(t.chatHistory, 1, Len(t.chatHistory) - 1)
\* The entries the log of a day holds; none for a day before the first.
DayEntries(d) == IF d \in DOMAIN logFiles THEN logFiles[d].data ELSE <<>>
\* A message of a history is the request or the response of an entry of day d.
FromDay(m, d) ==
    \E k \in 1..Len(DayEntries(d)) :
        \/ m = [role |-> "user", content |-> DayEntries(d)[k].request]
        \/ m = [role |-> "assistant", content |-> DayEntries(d)[k].response]

\* C11 as stated: the history a turn builds is made of the entries of the
\* current day's log and of no other day's: it has two messages for each
\* entry of today, each the request or the response of one of them.
C11_TodayOnly ==
    [][\A p \in Procs :
         StartsTurn(p) =>
           LET h == BuiltHistory(turn'[p])
           IN /\ Len(h) = 2 * Len(DayEntries(Day(now)))
              /\ \A i \in 1..Len(h) : FromDay(h[i], Day(now))]_vars

\* C11, amended: the history a turn builds is made of the entries of the
\* current day's log and of the previous day's log, and of no older day's:
\* it has two messages for each entry of these two days, each the request
\* or the response of one of them.
C11_LastTwoDays ==
    [][\A p \in Procs :
         StartsTurn(p) =>
           LET h == BuiltHistory(turn'[p])
           IN /\ Len(h) = 2 * (Len(DayEntries(Day(now)))
                               + Len(DayEntries(Day(now) - 1)))
              /\ \A i \in 1..Len(h) :
                    FromDay(h[i], Day(now)) \/ FromDay(h[i], Day(now) - 1)]_vars

\* A turn has started on a day whose log is empty, after an entry was logged
\* the day before and another the day before that: its history is the two
\* messages of yesterday's entry and the prompt.
C11_Witness ==
    \E p \in Procs :
        /\ pc[p] = "summarize"
        /\ Len(DayEntries(Day(now))) = 0
        /\ Len(DayEntries(Day(now) - 1)) = 1
        /\ Len(DayEntries(Day(now) - 2)) = 1
        /\ Len(turn[p].chatHistory) = 3

\* A log file one of the two paths names does not exist.
SomeLogMissing == \E i \in 1..LogDays : ~ReadLogFile(logFiles, getLastTwoDaysLogFiles[i]).exists
\* Process p runs, in this step, a command that reads the logs.
ReadsLogs(p) ==
    \/ pc[p] = "idle" /\ turn'[p].cmd \in {"sendChat", "printChatLog", "displayNewMessage"}
    \/ pc[p] = "finish" /\ pc'[p] # "finish"

\* C12: a command that reads the logs (building the history of a turn,
\* printing with -a, receiving with -r, updating the summary) while a log
\* file it reads does not exist reads it as empty and goes on: it does not
\* end with an error.
C12_MissingLogIsEmpty ==
    [][\A p \in Procs : ReadsLogs(p) /\ SomeLogMissing => pc'[p] # "fatal"]_vars

\* C13: whatever the files hold, the clear command completes successfully,
\* and afterwards every day's log reads as the empty sequence.
C13_ClearSucceeds ==
    [][\A p \in Procs :
         pc[p] = "idle" /\ turn'[p].cmd = "clearChatLog" =>
           /\ pc'[p] = "done"
           /\ \A d \in DOMAIN logFiles : readLogs(logFiles', <<d>>) = <<>>]_vars

\* The errors log.Fatalf reports for a file json.Unmarshal rejects.
ParseErrors ==
    {"Error parsing chat log", "Error parsing config file", "Error parsing state file"}

\* C14: no operation ends the process because a log, state or config file
\* it reads holds content that does not parse: it goes on as if the file
\* held nothing.
C14_CorruptionTolerated ==
    \A p \in Procs : pc[p] = "fatal" => turn[p].err \notin ParseErrors

\* C16: the end of a turn whose files all parse always completes the turn:
\* when the update of the summary store fails, the log entry written earlier
\* stays, the last-interaction state is still updated, and the process does
\* not end.
C16_MemoryFailureNonFatal ==
    [][\A p \in Procs :
         /\ pc[p] = "finish" /\ pc'[p] # "finish"
         /\ logsParse(logFiles, getLastTwoDaysLogFiles) /\ stateParses
         /\ turn'[p].err # "signal: killed"
         => /\ pc'[p] = "done"
            /\ logFiles' = logFiles
            /\ stateFile'.exists
            /\ UnmarshalState(stateFile'.data).LastInteraction = now]_vars

\* What sendChat holds as the result of its i-th completion call.
ReturnedText(t, i) ==
    <<t.memoryMoodDefenseResponse, t.leftBrainResponse, t.rightBrainResponse,
      t.execResponse>>[i]

\* C15: an answered completion call has returned a text exactly when the
\* endpoint answered with a success status, a body of the expected shape and
\* at least one choice, and that text is the content of the first choice;
\* every other answer is handed to the caller as a failure: no text is
\* returned and the calling process runs on to deal with it.
C15_ClientOutcomes ==
    \A p \in Procs :
        InTurn(p) =>
          \A i \in 1..Len(calls[p]) :
              calls[p][i].answered =>
                IF ResponseOK(calls[p][i].response)
                THEN ReturnedText(turn[p], i) = calls[p][i].response.content
                ELSE ReturnedText(turn[p], i) = <<>> /\ pc[p] # "fatal"

StoredConfig(f) == IF f.exists /\ f.parses THEN UnmarshalConfig(f.data) ELSE ZeroConfig
\* Process p runs the command cmd in this step, to its end.
Runs(p, cmd) == pc[p] = "idle" /\ pc'[p] = "done" /\ turn'[p].cmd = cmd
\* The field a configuration command stores for an argument: the argument
\* (as JSON holds it) when it is not empty, the old field when it is.
Given(arg, old) == IF arg # <<>> THEN ToValidUTF8(arg) ELSE old

\* C17: the stored config changes only in a step of a configuration command.
\* The set-personality command stores its argument as the personality and
\* leaves the three other fields; the set-name/AI-name/bio command stores
\* each non-empty argument in its field and leaves the fields of the empty
\* arguments and the personality.  No other step (a chat turn, a check-in
\* of the daemon, printing, receiving, clear, toggle, the clock) changes the
\* config file.
C17_ConfigFrame ==
    [][LET old == StoredConfig(configFile)
           new == StoredConfig(configFile')
       IN IF \E p \in Procs : Runs(p, "savePersonality")
          THEN \E p \in Procs :
                 /\ Runs(p, "savePersonality")
                 /\ new = [old EXCEPT !.Personality = ToValidUTF8(turn'[p].args[1])]
          ELSE IF \E p \in Procs : Runs(p, "updateConfig")
          THEN \E p \in Procs :
                 /\ Runs(p, "updateConfig")
                 /\ new.UserName = Given(turn'[p].args[1], old.UserName)
                 /\ new.AIName = Given(turn'[p].args[2], old.AIName)
                 /\ new.Bio = Given(turn'[p].args[3], old.Bio)
                 /\ new.Personality = old.Personality
          ELSE configFile' = configFile]_vars

\* The AI's name was set alone, after a personality, a name and a bio were
\* stored: all four fields are there.
C17_Witness ==
    \E p \in Procs :
        /\ pc[p] = "done"
        /\ turn[p].cmd = "updateConfig"
        /\ turn[p].args = <<(<<>>), (<<"n">>), (<<>>)>>
        /\ StoredConfig(configFile) =
             [UserName |-> <<"u">>, AIName |-> <<"n">>, Bio |-> <<"b">>,
              Personality |-> <<"p", ReplacementChar>>]

\* C19: when two turns that log to the same day have both completed, both
\* their entries are in that day's log, at two places of it: neither write
\* of the whole file has undone the other's.
C19_NoLostUpdate ==
    \A p, q \in DOMAIN pc :
        /\ p # q
        /\ InTurn(p) /\ pc[p] = "done"
        /\ InTurn(q) /\ pc[q] = "done"
        /\ turn[p].logFilePath = turn[q].logFilePath
        => LET data == logFiles[turn[p].logFilePath].data
           IN \E i, j \in 1..Len(data) :
                /\ i # j
                /\ data[i] = MarshalChatLog(turn[p].chatLog)
                /\ data[j] = MarshalChatLog(turn[q].chatLog)

\* The entries of a sequence of logs are in the order they were logged.
InOrder(logs) ==
    \A i, j \in 1..Len(logs) : i < j => logs[i].Timestamp <= logs[j].Timestamp

\* C20: the history a turn builds holds, for each entry read from the logs,
\* the user request and then the assistant response, and the entries are in
\* chronological order: the messages of an earlier turn come before those of
\* a later one.
C20_DialogueOrder ==
    [][\A p \in Procs :
         StartsTurn(p) =>
           LET h == BuiltHistory(turn'[p])
               logs == readLogs(logFiles, getLastTwoDaysLogFiles)
           IN /\ Len(h) = 2 * Len(logs)
              /\ \A k \in 1..Len(logs) :
                    /\ h[2 * k - 1] = [role |-> "user", content |-> logs[k].Request]
                    /\ h[2 * k] = [role |-> "assistant", content |-> logs[k].Response]
              /\ InOrder(logs)]_vars

\* C21: truncateChatHistory drops no more than it must: its result is a
\* suffix of the history within the limit, and it is the whole history or
\* the suffix one message longer costs more than the limit.
C21_Maximal ==
    trimIn.done =>
      LET n == Len(trimIn.history)
          k == Len(trimOut)
      IN /\ k <= n
         /\ trimOut = SubSeq(trimIn.history, n - k + 1, n)
         /\ Cost(trimOut) <= trimIn.limit
         /\ k = n \/ Cost(SubSeq(trimIn.history, n - k, n)) > trimIn.limit
\* Messages were kept with room to spare, and the message before them, which
\* alone is within the limit, was dropped because it did not fit with them.
C21_Witness ==
    /\ trimIn.done
    /\ 0 < Len(trimOut) /\ Len(trimOut) < Len(trimIn.history)
    /\ Cost(trimOut) < trimIn.limit
    /\ LET m == trimIn.history[Len(trimIn.history) - Len(trimOut)]
       IN /\ messageTokens(m) <= trimIn.limit
          /\ Cost(trimOut) + messageTokens(m) > trimIn.limit

\* The state a file holds, as getState reads it.
StoredState(f) ==
    IF f.exists /\ f.parses
    THEN UnmarshalState(f.data)
    ELSE [LastInteraction |-> ZeroTime, CheckInEnabled |-> TRUE]
\* Process p runs a round of the daemon in this step.
DaemonTick(p) == pc[p] = "idle" /\ turn'[p].cmd = "checkInUser"
\* Process p sends a check-in request in this step.
SendsCheckIn(p) == DaemonTick(p) /\ Len(calls'[p]) = Len(calls[p]) + 1

\* C22: a round of the daemon sends a check-in exactly when the persisted
\* state has the check-in enabled and its last interaction is more than
\* CheckInHours ago, so none is sent while it is disabled; the end of a
\* completed turn stores the current time as the last interaction, so none
\* is sent in the CheckInHours after it; a toggle flips the flag and leaves
\* the last interaction.
C22_CheckInGuard ==
    [][\A p \in Procs :
         LET old == StoredState(stateFile)
             new == StoredState(stateFile')
         IN /\ DaemonTick(p) =>
                 /\ stateFile'.exists
                 /\ SendsCheckIn(p) <=>
                      /\ new.CheckInEnabled
                      /\ now - new.LastInteraction > CheckInHours
            /\ InTurn(p) /\ pc[p] = "finish" /\ pc'[p] = "done" =>
                 /\ new.LastInteraction = now
                 /\ new.CheckInEnabled = old.CheckInEnabled
            /\ Runs(p, "toggleCheckInFeature") =>
                 /\ new.CheckInEnabled = ~old.CheckInEnabled
                 /\ new.LastInteraction = old.LastInteraction]_vars

\* A round of the daemon has sent a check-in, with the check-in enabled, one
\* hour after the CheckInHours that followed a completed turn.
C22_Witness ==
    \E p \in Procs :
        /\ turn[p].cmd = "checkInUser"
        /\ Len(calls[p]) = 1
        /\ StoredState(stateFile).CheckInEnabled
        /\ StoredState(stateFile).LastInteraction >= 0
        /\ now - StoredState(stateFile).LastInteraction = CheckInHours + 1
        /\ Logged >= 1

\* The check-in stays due: process p is not finishing a turn or toggling.
UserIdle(p) ==
    /\ ~(InTurn(p) /\ pc[p] = "finish")
    /\ turn'[p].cmd # "toggleCheckInFeature"

\* C23: a round of the daemon, whether it sends a check-in or not and
\* whatever the endpoint answers, changes no log, nor the last interaction,
\* nor the check-in flag; so a check-in that was due stays due until a turn
\* completes or the check-in is toggled, and each further round sends
\* another; and what the -r command shows is never the reply to a check-in.
C23_CheckInFrame ==
    [][LET old == StoredState(stateFile)
           new == StoredState(stateFile')
           wasDue == old.CheckInEnabled /\ now - old.LastInteraction > CheckInHours
           isDue == new.CheckInEnabled /\ now' - new.LastInteraction > CheckInHours
       IN /\ \A p \in Procs :
               /\ DaemonTick(p) =>
                    /\ logFiles' = logFiles
                    /\ summaryFile' = summaryFile
                    /\ new = old
               /\ wasDue /\ DaemonTick(p) => SendsCheckIn(p)
               /\ turn'[p].cmd = "displayNewMessage" =>
                    turn'[p].out # <<CheckInReply>>
          /\ wasDue /\ (\A p \in Procs : UserIdle(p)) => isDue]_vars

\* The endpoint has answered a check-in sent after a logged turn, and the
\* check-in is still due.
C23_Witness ==
    \E p \in Procs :
        /\ pc[p] = "done"
        /\ turn[p].cmd = "checkInUser"
        /\ turn[p].out = <<CheckInReply>>
        /\ Logged >= 1
        /\ StoredState(stateFile).LastInteraction >= 0
        /\ checkInDue(StoredState(stateFile))

================================================================================
